---------------------------- MODULE Spec2Model ----------------------------
(***************************************************************************)
(* A model of tweets-as-datasets: the JSON merge-persist store             *)
(* (tad_common.py), the configuration parser (tad_common.py), the          *)
(* streaming collector (tsm.py) and the paginated search collector         *)
(* (ttm.py).                                                               *)
(*                                                                         *)
(* Python strings that the code takes apart (configuration lines, the      *)
(* continuation cursor) are sequences of one-character strings.  A Python  *)
(* dict is a sequence of <<key, value>> pairs with distinct keys, in       *)
(* insertion order.  A file holds the sequence of JSON tokens json.dump    *)
(* wrote.                                                                  *)
(***************************************************************************)
EXTENDS Integers, Sequences, FiniteSets, TLC

VARIABLES
    fs,        \* the file system: file name -> [exists, content]
    st,        \* JSONStorage sessions: history of the last two store() runs
    ld,        \* load_topics: the file read and the loop's position
    sm,        \* StreamMiner, its feed and the main() that drives it
    tm         \* TopicMiner, the search API and the main() that drives it

vars == <<fs, st, ld, sm, tm>>

-----------------------------------------------------------------------------
(* Bounds of the model *)

MaxBatch == 2
MaxFeed == 5
MaxLimit == 3
MaxPages == 2
MaxCalls == 3
MaxLines == 3

-----------------------------------------------------------------------------
(* Python dict *)

DictHas(d, k) == \E i \in 1..Len(d) : d[i][1] = k

DictSet(d, k, v) ==
    IF DictHas(d, k)
    THEN [i \in 1..Len(d) |-> IF d[i][1] = k THEN <<k, v>> ELSE d[i]]
    ELSE Append(d, <<k, v>>)

RECURSIVE DictUpdate(_, _)
DictUpdate(d, e) ==
    IF e = <<>> THEN d
    ELSE DictUpdate(DictSet(d, Head(e)[1], Head(e)[2]), Tail(e))

DictKeys(d) == {d[i][1] : i \in 1..Len(d)}

DictGet(d, k) == d[CHOOSE i \in 1..Len(d) : d[i][1] = k][2]

\* the mapping a dict denotes, order forgotten
DictMap(d) == [k \in DictKeys(d) |-> DictGet(d, k)]

-----------------------------------------------------------------------------
(* JSON text, as tokens *)

P(c) == [t |-> "punct", v |-> c]
S(s) == [t |-> "string", v |-> s]

\* json.dump of {identifier: {'text': text}, ...}
RECURSIVE JsonMembers(_)
JsonMembers(d) ==
    IF d = <<>> THEN <<>>
    ELSE <<S(Head(d)[1]), P(":"), P("{"), S("text"), P(":"),
           S(Head(d)[2].text), P("}")>>
         \o (IF Tail(d) = <<>> THEN <<>> ELSE <<P(",")>>)
         \o JsonMembers(Tail(d))

JsonDump(d) == <<P("{")>> \o JsonMembers(d) \o <<P("}")>>

\* json.load of an object of {'text': ...} objects; a repeated key keeps
\* its last value
RECURSIVE JsonLoadFrom(_, _, _)
JsonLoadFrom(toks, i, acc) ==
    IF toks[i] = P("}") THEN acc
    ELSE IF toks[i] = P(",") THEN JsonLoadFrom(toks, i + 1, acc)
    ELSE JsonLoadFrom(toks, i + 7,
                      DictSet(acc, toks[i].v, [text |-> toks[i + 5].v]))

JsonLoad(toks) == JsonLoadFrom(toks, 2, <<>>)

-----------------------------------------------------------------------------
(* tad_common.JSONStorage *)

NoFile == [exists |-> FALSE, content |-> <<>>]

FileNames == {"tweets.json", "sports.json", "music.json"}

\* JSONStorage.__init__
StorageFile(filename) == filename \o ".json"

\* the dict of the records alone: a later record of the batch replaces an
\* earlier one with its identifier
RECURSIVE TweetsDict(_, _)
TweetsDict(tweets, acc) ==
    IF tweets = <<>> THEN acc
    ELSE TweetsDict(Tail(tweets),
                    DictSet(acc, Head(tweets).identifier,
                            [text |-> Head(tweets).text]))

\* a merge in which what is on disk wins over what was fetched
TweetsToDictPrevWins(tweets, prev_tweets_dict) ==
    DictUpdate(TweetsDict(tweets, <<>>), prev_tweets_dict)

\* a merge that forgets what was on disk
TweetsToDictOverwrite(tweets, prev_tweets_dict) ==
    TweetsDict(tweets, <<>>)

\* JSONStorage._tweets_to_dict
TweetsToDict(tweets, prev_tweets_dict) ==
    DictUpdate(prev_tweets_dict, TweetsDict(tweets, <<>>))

\* JSONStorage.store: the file after the run
StoreFile(file, tweets) ==
    LET prev_tweets == IF file.exists THEN JsonLoad(file.content) ELSE <<>>
    IN  [exists |-> TRUE,
         content |-> JsonDump(TweetsToDict(tweets, prev_tweets))]

\* the mapping a file holds; none when there is no file
FileMap(file) == IF file.exists THEN DictMap(JsonLoad(file.content)) ELSE <<>>

-----------------------------------------------------------------------------
(* Sessions that store into tweets.json, as tsm.main does *)

T(identifier, text) == [identifier |-> identifier, text |-> text]

TweetObjects == {T("1", "a"), T("1", ""), T("2", "a")}

RECURSIVE SeqsUpTo(_, _)
SeqsUpTo(set, n) ==
    IF n = 0 THEN {<<>>}
    ELSE LET shorter == SeqsUpTo(set, n - 1)
         IN  shorter \cup {Append(s, x) : s \in {t \in shorter : Len(t) = n - 1}, x \in set}

Batches == SeqsUpTo(TweetObjects, MaxBatch)

StInit ==
    st = [runs |-> 0, pre |-> NoFile, pre2 |-> NoFile,
          batchA |-> <<>>, batchB |-> <<>>]

FsInit == fs = [f \in FileNames |-> NoFile]

\* one run of storage.store(tweets) on JSONStorage('tweets')
Store(tweets) ==
    LET f == StorageFile("tweets")
    IN  /\ fs' = [fs EXCEPT ![f] = StoreFile(fs[f], tweets)]
        /\ st' = [runs |-> IF st.runs < 2 THEN st.runs + 1 ELSE 2,
                  pre |-> fs[f], pre2 |-> st.pre,
                  batchA |-> st.batchB, batchB |-> tweets]
        /\ UNCHANGED <<ld, sm, tm>>

StoreNext == \E tweets \in Batches : Store(tweets)

Idle == "idle"

StoreInit == FsInit /\ StInit /\ ld = Idle /\ sm = Idle /\ tm = Idle

SpecStore == StoreInit /\ [][StoreNext]_vars

\* what the store is to hold after a run: what it held, with every incoming
\* record set, in order, as mapping[identifier] = {text}
LastWith(tweets, k) ==
    CHOOSE i \in 1..Len(tweets) :
        /\ tweets[i].identifier = k
        /\ \A j \in (i + 1)..Len(tweets) : tweets[j].identifier # k

Override(m, tweets) ==
    LET ids == {tweets[i].identifier : i \in 1..Len(tweets)}
    IN  [k \in (DOMAIN m) \cup ids |->
            IF k \in ids THEN [text |-> tweets[LastWith(tweets, k)].text]
            ELSE m[k]]

TweetsFile == fs[StorageFile("tweets")]

\* the number of members of the object a file holds
JsonMemberCount(toks) == (Len(toks) - 1) \div 8

\* C1: after each run of store(records) the mapping on disk is the mapping
\* that was on disk before the run (empty when there was no file) with every
\* incoming record set as mapping[identifier] = {text}; every identifier on
\* disk before the run is still on disk, and no other file is touched.
C1_StoreIsUnion ==
    st.runs >= 1 =>
        /\ TweetsFile.exists
        /\ FileMap(TweetsFile) = Override(FileMap(st.pre), st.batchB)
        /\ DOMAIN FileMap(st.pre) \subseteq DOMAIN FileMap(TweetsFile)
        /\ \A f \in FileNames \ {StorageFile("tweets")} : fs[f] = NoFile

\* a run that found a record on disk, replaced the text of one identifier and
\* kept another it did not fetch
C1_Witness ==
    /\ st.runs >= 1
    /\ st.pre.exists
    /\ \E k \in DOMAIN FileMap(st.pre) :
          /\ \E i \in 1..Len(st.batchB) : st.batchB[i].identifier = k
          /\ FileMap(TweetsFile)[k] # FileMap(st.pre)[k]
    /\ \E k \in DOMAIN FileMap(st.pre) :
          \A i \in 1..Len(st.batchB) : st.batchB[i].identifier # k

\* C2: store(A) and then store(B) leave the mapping a single store of A
\* followed by B leaves, B's text overriding A's for an identifier of both,
\* and the file holds each identifier once.
C2_MergeRightBiased ==
    st.runs = 2 =>
        /\ FileMap(TweetsFile) = Override(FileMap(st.pre2), st.batchA \o st.batchB)
        /\ FileMap(TweetsFile) = FileMap(StoreFile(st.pre2, st.batchA \o st.batchB))
        /\ JsonMemberCount(TweetsFile.content) = Cardinality(DOMAIN FileMap(TweetsFile))

\* two runs on a store that held a record, with an identifier in both batches
\* under different texts
C2_Witness ==
    /\ st.runs = 2
    /\ st.pre2.exists /\ FileMap(st.pre2) # <<>>
    /\ \E i \in 1..Len(st.batchA), j \in 1..Len(st.batchB) :
          /\ st.batchA[i].identifier = st.batchB[j].identifier
          /\ st.batchA[i].text # st.batchB[j].text
          /\ FileMap(TweetsFile)[st.batchB[j].identifier].text = st.batchB[j].text

-----------------------------------------------------------------------------
(* tad_common.Tweet *)

\* a status of the API: 'text' may be missing (a notice of the stream)
Status(id, hasText, text) == [id |-> id, hasText |-> hasText, text |-> text]

\* Tweet.__init__ of a status that has a text
Tweet(status) == [identifier |-> ToString(status.id), text |-> status.text]

RECURSIVE Tweets(_)
Tweets(statuses) ==
    IF statuses = <<>> THEN <<>>
    ELSE <<Tweet(Head(statuses))>> \o Tweets(Tail(statuses))

-----------------------------------------------------------------------------
(* tsm.StreamMiner and tsm.main *)

StreamEvents == {Status(1, TRUE, "a"), Status(2, TRUE, ""), Status(3, FALSE, "")}

Feeds == SeqsUpTo(StreamEvents, MaxFeed)

\* int(--max), or 0 without the option
LimitArguments == (-1)..MaxLimit

\* a tweets.json a previous session may have left
PreviousSessions == {NoFile, StoreFile(NoFile, <<T("1", "old"), T("9", "old")>>)}

\* StreamMiner.__init__ (limit), before main calls get_tweets
SmInit ==
    \E arg \in LimitArguments, feed \in Feeds :
        sm = [pc |-> "created",
              limit |-> IF arg > 0 THEN arg ELSE -1,
              feed |-> feed, pos |-> 0,
              tweetsIsNone |-> TRUE, tweets |-> <<>>, count |-> 0,
              accepted |-> <<>>, interrupted |-> FALSE,
              pre |-> NoFile]

\* get_tweets: tweets is None, so _get_tweets starts
SmGetTweets ==
    /\ sm.pc = "created"
    /\ sm.tweetsIsNone
    /\ sm' = [sm EXCEPT !.tweetsIsNone = FALSE, !.tweets = <<>>,
                        !.count = 0, !.pc = "iter"]
    /\ UNCHANGED <<fs, st, ld, tm>>

\* the for loop takes the next status of the stream and tests it
SmNextEvent ==
    /\ sm.pc = "iter"
    /\ sm.pos < Len(sm.feed)
    /\ LET status == sm.feed[sm.pos + 1]
       IN  IF status.hasText /\ sm.count # sm.limit
           THEN sm' = [sm EXCEPT !.pos = @ + 1,
                                 !.tweets = Append(@, Tweet(status)),
                                 !.accepted = Append(@, status),
                                 !.pc = "appended"]
           ELSE sm' = [sm EXCEPT !.pos = @ + 1, !.pc = "returned"]
    /\ UNCHANGED <<fs, st, ld, tm>>

\* count += 1
SmIncrement ==
    /\ sm.pc = "appended"
    /\ sm' = [sm EXCEPT !.count = @ + 1, !.pc = "iter"]
    /\ UNCHANGED <<fs, st, ld, tm>>

\* the stream connection is closed: the for loop ends
SmStreamClosed ==
    /\ sm.pc = "iter"
    /\ sm.pos = Len(sm.feed)
    /\ sm' = [sm EXCEPT !.pc = "returned"]
    /\ UNCHANGED <<fs, st, ld, tm>>

\* the stream raises (a transport error): nothing catches it
SmStreamError ==
    /\ sm.pc = "iter"
    /\ sm' = [sm EXCEPT !.pc = "raised"]
    /\ UNCHANGED <<fs, st, ld, tm>>

\* an interrupt that nothing catches
SmKeyboardInterruptRaises ==
    /\ sm.pc \in {"iter", "appended"}
    /\ sm' = [sm EXCEPT !.interrupted = TRUE, !.pc = "raised"]
    /\ UNCHANGED <<fs, st, ld, tm>>

\* ^C inside the try: except KeyboardInterrupt logs, _get_tweets ends
SmKeyboardInterrupt ==
    /\ sm.pc \in {"iter", "appended"}
    /\ sm' = [sm EXCEPT !.interrupted = TRUE, !.pc = "returned"]
    /\ UNCHANGED <<fs, st, ld, tm>>

\* main: storage.store(streamminer.get_tweets())
SmMainStore ==
    /\ sm.pc = "returned"
    /\ LET f == StorageFile("tweets")
       IN  fs' = [fs EXCEPT ![f] = StoreFile(fs[f], sm.tweets)]
    /\ sm' = [sm EXCEPT !.pc = "stored", !.pre = fs[StorageFile("tweets")]]
    /\ UNCHANGED <<st, ld, tm>>

StreamInit ==
    /\ \E file \in PreviousSessions :
          fs = [f \in FileNames |-> IF f = StorageFile("tweets") THEN file ELSE NoFile]
    /\ SmInit
    /\ st = Idle /\ ld = Idle /\ tm = Idle

StreamNext ==
    \/ SmGetTweets
    \/ SmNextEvent
    \/ SmIncrement
    \/ SmStreamClosed
    \/ SmStreamError
    \/ SmKeyboardInterrupt
    \/ SmMainStore

SpecStream == StreamInit /\ [][StreamNext]_vars

\* the feed holds more than limit events and every one has a text
SmFeedOverLimit ==
    /\ sm.limit > 0
    /\ Len(sm.feed) > sm.limit
    /\ \A i \in 1..Len(sm.feed) : sm.feed[i].hasText

\* C5: with a positive limit L and a feed of more than L events that all
\* have a text, get_tweets yields exactly the first L events, the collector
\* consumes no event once count = L, and never holds more than L records.
C5_StopsAtLimit ==
    (SmFeedOverLimit /\ ~sm.interrupted /\ sm.pc # "raised") =>
        /\ Len(sm.tweets) <= sm.limit
        /\ sm.pos <= sm.limit
        /\ sm.pc \in {"returned", "stored"} =>
              sm.tweets = Tweets(SubSeq(sm.feed, 1, sm.limit))

\* C6: an interrupt while the collector is collecting, after k records were
\* accepted, makes get_tweets return exactly those k records and raise
\* nothing, and main then merges them into tweets.json.
C6_InterruptKeepsRecords ==
    sm.interrupted =>
        /\ sm.pc \in {"returned", "stored"}
        /\ sm.tweets = Tweets(sm.accepted)
        /\ sm.pc = "stored" =>
              FileMap(TweetsFile) = Override(FileMap(sm.pre), Tweets(sm.accepted))

\* interrupted after two records, which were then stored beside the records
\* of a previous session
C6_Witness ==
    /\ sm.interrupted
    /\ Len(sm.accepted) = 2
    /\ sm.pos < Len(sm.feed)
    /\ sm.pc = "stored"
    /\ sm.pre.exists
    /\ \A i \in 1..2 : ToString(sm.accepted[i].id) \in DOMAIN FileMap(TweetsFile)

-----------------------------------------------------------------------------
(* Python str.split(sep) and str.strip() on sequences of characters *)

RECURSIVE SplitFrom(_, _, _, _)
SplitFrom(s, sep, cur, acc) ==
    IF s = <<>> THEN Append(acc, cur)
    ELSE IF Head(s) = sep THEN SplitFrom(Tail(s), sep, <<>>, Append(acc, cur))
    ELSE SplitFrom(Tail(s), sep, Append(cur, Head(s)), acc)

Split(s, sep) == SplitFrom(s, sep, <<>>, <<>>)

Whitespace == {" ", "\t", "\n", "\r"}

RECURSIVE LStrip(_)
LStrip(s) == IF s # <<>> /\ Head(s) \in Whitespace THEN LStrip(Tail(s)) ELSE s

RECURSIVE RStrip(_)
RStrip(s) ==
    IF s # <<>> /\ s[Len(s)] \in Whitespace THEN RStrip(SubSeq(s, 1, Len(s) - 1))
    ELSE s

Strip(s) == RStrip(LStrip(s))

\* sep.join(parts)
RECURSIVE Join(_, _)
Join(parts, sep) ==
    IF parts = <<>> THEN <<>>
    ELSE IF Len(parts) = 1 THEN parts[1]
    ELSE parts[1] \o <<sep>> \o Join(Tail(parts), sep)

-----------------------------------------------------------------------------
(* ttm.TopicMiner *)

LANG == <<"e", "n">>

Str_q == <<"q">>
Str_lang == <<"l", "a", "n", "g">>
Str_count == <<"c", "o", "u", "n", "t">>
Str_100 == <<"1", "0", "0">>
Str_max_id == <<"m", "a", "x", "_", "i", "d">>
Str_include_entities == <<"i", "n", "c", "l", "u", "d", "e", "_", "e", "n", "t", "i", "t", "i", "e", "s">>
Str_1 == <<"1">>
Str_NCAA == <<"N", "C", "A", "A">>
Str_nba == <<"n", "b", "a">>
Str_rock == <<"r", "o", "c", "k">>

\* the parameters of the first request of a query
FirstKwargs(query) ==
    << <<Str_q, query>>, <<Str_lang, LANG>>, <<Str_count, Str_100>> >>

\* a parsing that keeps the first request's defaults
ParseCursorKeepDefaults(next_results) ==
    LET kvs == Split(Tail(next_results), "&")
        pairs == [i \in 1..Len(kvs) |-> Split(kvs[i], "=")]
    IN  [ok |-> \A i \in 1..Len(pairs) : Len(pairs[i]) = 2,
         kwargs |-> IF \A i \in 1..Len(pairs) : Len(pairs[i]) = 2
                    THEN DictUpdate(<< <<Str_lang, LANG>>,
                                       <<Str_count, Str_100>> >>, pairs)
                    ELSE <<>>]

\* dict([kv.split('=') for kv in next_results[1:].split("&")]): dict()
\* raises ValueError unless every element has length 2
ParseCursor(next_results) ==
    LET kvs == Split(Tail(next_results), "&")
        pairs == [i \in 1..Len(kvs) |-> Split(kvs[i], "=")]
    IN  [ok |-> \A i \in 1..Len(pairs) : Len(pairs[i]) = 2,
         kwargs |-> IF \A i \in 1..Len(pairs) : Len(pairs[i]) = 2
                    THEN DictUpdate(<<>>, pairs) ELSE <<>>]

-----------------------------------------------------------------------------
(* The search API, as the miner meets it *)

\* how the API writes next_results from the parameters of the next page
FormatCursor(params) ==
    <<"?">> \o Join([i \in 1..Len(params) |-> params[i][1] \o <<"=">> \o params[i][2]], "&")

MaxIds == {<<"1", "2", "3">>, <<"4", "5">>}

CursorParams(query, maxid) ==
    << <<Str_max_id, maxid>>, <<Str_q, query>>, <<Str_include_entities, Str_1>> >>

\* a next_results one of whose pairs has no '='
MalformedCursor == <<"?", "m", "a", "x", "_", "i", "d">>

StatusA == Status(1, TRUE, "a")
StatusB == Status(2, TRUE, "b")
StatusNoText == Status(3, FALSE, "")

PageBodies == {<<>>, <<StatusA>>, <<StatusA, StatusB>>, <<StatusB, StatusNoText>>}

NoParams == <<>>

\* what a request can meet: an error of the transport or of the decoding of
\* the response, a last page, or (before the MaxPages-th page) a page that
\* names a next one
ApiOutcomes(query, served) ==
    {[failed |-> TRUE, statuses |-> <<>>, hasNext |-> FALSE,
      next_results |-> <<>>, params |-> NoParams]}
    \cup {[failed |-> FALSE, statuses |-> b, hasNext |-> FALSE,
           next_results |-> <<>>, params |-> NoParams] : b \in PageBodies}
    \cup (IF served + 1 < MaxPages
          THEN {[failed |-> FALSE, statuses |-> b, hasNext |-> TRUE,
                 next_results |-> FormatCursor(CursorParams(query, id)),
                 params |-> CursorParams(query, id)] :
                     b \in PageBodies, id \in MaxIds}
               \cup {[failed |-> FALSE, statuses |-> b, hasNext |-> TRUE,
                      next_results |-> MalformedCursor, params |-> NoParams] :
                         b \in PageBodies}
          ELSE {})

-----------------------------------------------------------------------------
(* TopicMiner: the object and its calls *)

\* TopicMiner.__init__(queries).  qi, query_tweets, results and kwargs are
\* the locals of _get_tweets.  The other fields record what happened, for
\* the properties: exc (the exception that left the call), result (what
\* get_tweets returned), cursor and params (the next_results kwargs was
\* parsed from, and the parameters the API wrote it from), nreq (requests
\* issued for the query at hand), served (the pages served, by query), done
\* (the requests and records of each query that ended), complete (the last
\* collection ran to its end), calls and callreqs (calls made, requests
\* issued by the last call), ti and pre (main's topic and its file before).
NewMiner(queries) ==
    [queries |-> queries, tweetsIsNone |-> TRUE, tweets |-> <<>>,
     pc |-> "created", call |-> "none", exc |-> "none", result |-> <<>>,
     qi |-> 0, query_tweets |-> <<>>,
     results |-> [statuses |-> <<>>, hasNext |-> FALSE,
                  next_results |-> <<>>, params |-> NoParams],
     kwargs |-> <<>>, cursor |-> <<>>, params |-> NoParams,
     nreq |-> 0, served |-> <<>>, done |-> <<>>,
     complete |-> FALSE, calls |-> 0, callreqs |-> 0,
     ti |-> 0, pre |-> NoFile]

HasTextless(statuses) == \E i \in 1..Len(statuses) : ~statuses[i].hasText

NoResults ==
    [statuses |-> <<>>, hasNext |-> FALSE, next_results |-> <<>>,
     params |-> NoParams]

\* the locals of _get_tweets (query, query_tweets, results, kwargs) end with
\* the call
Forget(m) ==
    [m EXCEPT !.qi = 0, !.query_tweets = <<>>, !.results = NoResults,
              !.kwargs = <<>>, !.cursor = <<>>, !.params = NoParams,
              !.nreq = 0]

\* an exception that get_tweets turns into a normal return of self.tweets
RaiseSwallowed(m, exc) ==
    [Forget(m) EXCEPT !.pc = "returned", !.exc = exc, !.result = m.tweets]

\* an exception leaves _get_tweets and then get_tweets or refresh: neither
\* has a handler
Raise(m, exc) == [Forget(m) EXCEPT !.pc = "raised", !.exc = exc]

\* the end of _get_tweets: get_tweets returns self.tweets, refresh returns
Return(m) ==
    IF m.call = "get_tweets"
    THEN [Forget(m) EXCEPT !.pc = "returned", !.complete = TRUE,
                           !.result = m.tweets]
    ELSE [Forget(m) EXCEPT !.pc = "refreshed", !.complete = TRUE]

\* self.tweets = list(), then the for loop over the queries
BeginCollect(m) ==
    LET m1 == [m EXCEPT !.tweetsIsNone = FALSE, !.tweets = <<>>, !.qi = 1,
                        !.exc = "none", !.result = <<>>,
                        !.served = <<>>, !.done = <<>>, !.complete = FALSE]
    IN  IF m.queries = <<>> THEN Return(m1) ELSE [m1 EXCEPT !.pc = "query"]

\* a request was issued with kwargs (parsed from cursor, which the API wrote
\* from params) and met out:
\*   results = self._t_api.search.tweets(...)
\*   query_tweets += [Tweet(status) for status in results['statuses']]
AfterRequest(m, kwargs, cursor, params, out) ==
    LET m1 == [m EXCEPT !.kwargs = kwargs, !.cursor = cursor,
                        !.params = params,
                        !.nreq = @ + 1, !.callreqs = @ + 1]
        page == [statuses |-> out.statuses, hasNext |-> out.hasNext]
        m2 == [m1 EXCEPT !.served[m.qi] = Append(@, page)]
    IN  IF out.failed THEN Raise(m1, "TwitterError")
        ELSE IF HasTextless(out.statuses) THEN Raise(m2, "KeyError")
        ELSE [m2 EXCEPT !.query_tweets = @ \o Tweets(out.statuses),
                        !.results = [statuses |-> out.statuses,
                                     hasNext |-> out.hasNext,
                                     next_results |-> out.next_results,
                                     params |-> out.params],
                        !.pc = "cursor"]

\* one turn of the while loop: without next_results the query is done and
\* the for loop goes on (or ends); with it, the next page is requested with
\* the parameters parsed from it
NextResults(m, out) ==
    IF ~m.results.hasNext
    THEN LET m1 == [m EXCEPT !.tweets = @ \o m.query_tweets,
                             !.done = Append(@, [nreq |-> m.nreq,
                                                 records |-> m.query_tweets]),
                             !.qi = @ + 1]
         IN  IF m1.qi > Len(m.queries) THEN Return(m1)
             ELSE [m1 EXCEPT !.pc = "query"]
    ELSE LET parsed == ParseCursor(m.results.next_results)
         IN  IF ~parsed.ok THEN Raise(m, "ValueError")
             ELSE AfterRequest(m, parsed.kwargs, m.results.next_results,
                               m.results.params, out)

\* the first request of the query at hand
TmFirstRequest ==
    /\ tm.pc = "query"
    /\ LET query == tm.queries[tm.qi]
           m == [tm EXCEPT !.query_tweets = <<>>, !.nreq = 0,
                           !.served = Append(@, <<>>)]
       IN  \E out \in ApiOutcomes(query, 0) :
               tm' = AfterRequest(m, FirstKwargs(query), <<>>, NoParams, out)
    /\ UNCHANGED <<fs, st, ld, sm>>

\* next_results is looked up, and followed if it is there
TmNextResults ==
    /\ tm.pc = "cursor"
    /\ \E out \in ApiOutcomes(tm.queries[tm.qi], Len(tm.served[tm.qi])) :
          tm' = NextResults(tm, out)
    /\ UNCHANGED <<fs, st, ld, sm>>

\* where a caller holds the miner and can call it
CallerStates == {"created", "returned", "refreshed", "raised"}

\* get_tweets(): collects only if self.tweets is None
GetTweets(m) ==
    LET m1 == [m EXCEPT !.call = "get_tweets", !.calls = @ + 1, !.callreqs = 0]
    IN  IF m.tweetsIsNone THEN BeginCollect(m1)
        ELSE [m1 EXCEPT !.pc = "returned", !.exc = "none", !.result = m.tweets]

\* refresh()
Refresh(m) ==
    BeginCollect([m EXCEPT !.call = "refresh", !.calls = @ + 1, !.callreqs = 0])

TmCallGetTweets ==
    /\ tm.pc \in CallerStates
    /\ tm.calls < MaxCalls
    /\ tm' = GetTweets(tm)
    /\ UNCHANGED <<fs, st, ld, sm>>

TmCallRefresh ==
    /\ tm.pc \in CallerStates
    /\ tm.calls < MaxCalls
    /\ tm' = Refresh(tm)
    /\ UNCHANGED <<fs, st, ld, sm>>

\* a caller that holds one TopicMiner and calls it as it likes
TopicInit ==
    /\ FsInit
    /\ tm = NewMiner(<<Str_NCAA, Str_nba>>)
    /\ st = Idle /\ ld = Idle /\ sm = Idle

TopicNext ==
    \/ TmCallGetTweets
    \/ TmCallRefresh
    \/ TmFirstRequest
    \/ TmNextResults

SpecTopic == TopicInit /\ [][TopicNext]_vars

-----------------------------------------------------------------------------
(* ttm.main *)

Topics ==
    << [name |-> "sports", queries |-> <<Str_NCAA, Str_nba>>],
       [name |-> "music", queries |-> <<Str_rock>>] >>

TopicFile == StorageFile(Topics[tm.ti].name)

\* for topicname, queries in load_topics(...): TopicMiner(queries),
\* JSONStorage(topicname), and the get_tweets() that store is called with
TmMainNextTopic ==
    /\ tm.pc \in {"main", "stored"}
    /\ tm.ti < Len(Topics)
    /\ LET topic == Topics[tm.ti + 1]
       IN  tm' = GetTweets([NewMiner(topic.queries) EXCEPT
                                !.ti = tm.ti + 1,
                                !.pre = fs[StorageFile(topic.name)]])
    /\ UNCHANGED <<fs, st, ld, sm>>

\* storage.store(...) of what get_tweets returned
TmMainStore ==
    /\ tm.pc = "returned"
    /\ fs' = [fs EXCEPT ![TopicFile] = StoreFile(fs[TopicFile], tm.result)]
    /\ tm' = [tm EXCEPT !.pc = "stored"]
    /\ UNCHANGED <<st, ld, sm>>

TopicMainInit ==
    /\ \E file \in PreviousSessions :
          fs = [f \in FileNames |-> IF f = StorageFile("sports") THEN file ELSE NoFile]
    /\ tm = [NewMiner(<<>>) EXCEPT !.pc = "main"]
    /\ st = Idle /\ ld = Idle /\ sm = Idle

TopicMainNext ==
    \/ TmMainNextTopic
    \/ TmFirstRequest
    \/ TmNextResults
    \/ TmMainStore

SpecTopicMain == TopicMainInit /\ [][TopicMainNext]_vars

-----------------------------------------------------------------------------
(* Properties of the search collector *)

\* the records of a page when an item without a text is left out
RECURSIVE TweetsWithText(_)
TweetsWithText(statuses) ==
    IF statuses = <<>> THEN <<>>
    ELSE (IF Head(statuses).hasText THEN <<Tweet(Head(statuses))>> ELSE <<>>)
         \o TweetsWithText(Tail(statuses))

\* the records of a chain of pages, in arrival order, the items without a
\* text left out
RECURSIVE PagesRecords(_)
PagesRecords(pages) ==
    IF pages = <<>> THEN <<>>
    ELSE TweetsWithText(Head(pages).statuses) \o PagesRecords(Tail(pages))

RECURSIVE ChainsRecords(_)
ChainsRecords(chains) ==
    IF chains = <<>> THEN <<>>
    ELSE PagesRecords(Head(chains)) \o ChainsRecords(Tail(chains))

\* the last page served for a query names no next page
ChainComplete(pages) == pages # <<>> /\ ~pages[Len(pages)].hasNext

AllChainsComplete ==
    /\ Len(tm.served) = Len(tm.queries)
    /\ \A q \in 1..Len(tm.served) : ChainComplete(tm.served[q])

\* C3: when the N-th response of a query is its first without next_results,
\* the query ends with exactly N requests issued and with the records of its
\* N pages, in arrival order and with duplicates; the topic's records are the
\* queries' records in the order of the queries.
C3_PaginationCollectsAllPages ==
    /\ \A q \in 1..Len(tm.served) :
          ChainComplete(tm.served[q]) =>
              IF q <= Len(tm.done)
              THEN /\ tm.done[q].nreq = Len(tm.served[q])
                   /\ tm.done[q].records = PagesRecords(tm.served[q])
              ELSE /\ tm.pc = "cursor" /\ tm.qi = q
                   /\ tm.nreq = Len(tm.served[q])
                   /\ tm.query_tweets = PagesRecords(tm.served[q])
    /\ tm.tweets = ChainsRecords(SubSeq(tm.served, 1, Len(tm.done)))

\* C4: a page with an item that has no text does not make the collection
\* fail: the item is left out and the other items of the page are collected.
C4_TextlessItemSkipped ==
    \A q \in 1..Len(tm.served) :
        \A i \in 1..Len(tm.served[q]) :
            HasTextless(tm.served[q][i].statuses) =>
                /\ tm.exc # "KeyError"
                /\ tm.pc # "raised"

\* C9: the request that follows a response with next_results carries exactly
\* the parameters next_results was written from, and neither lang nor count;
\* ?max_id=123&q=NCAA&include_entities=1 gives max_id 123, q NCAA and
\* include_entities 1.
ExampleCursor == <<"?", "m", "a", "x", "_", "i", "d", "=", "1", "2", "3", "&", "q", "=", "N", "C", "A", "A", "&", "i", "n", "c", "l", "u", "d", "e", "_", "e", "n", "t", "i", "t", "i", "e", "s", "=", "1">>

C9_NextRequestFromCursor ==
    (tm.pc = "cursor" /\ tm.nreq > 1) =>
        /\ tm.cursor = FormatCursor(tm.params)
        /\ Len(tm.kwargs) = Len(tm.params)
        /\ DictMap(tm.kwargs) = DictMap(tm.params)
        /\ DictKeys(tm.kwargs) \cap {Str_lang, Str_count} = {}
        /\ tm.cursor = ExampleCursor =>
              DictMap(tm.kwargs) =
                  (Str_max_id :> <<"1", "2", "3">> @@ Str_q :> Str_NCAA
                     @@ Str_include_entities :> Str_1)

\* the second page of NCAA was asked for with the example's cursor
C9_Witness ==
    /\ tm.pc = "cursor"
    /\ tm.nreq = 2
    /\ tm.cursor = ExampleCursor
    /\ DictKeys(tm.kwargs) = {Str_max_id, Str_q, Str_include_entities}

\* C10: every get_tweets() that returns normally returns one full collection
\* (all pages of all queries, in order), also after an earlier call failed;
\* after a collection that ended, get_tweets() issues no request and returns
\* the same sequence.
C10_GetTweetsReturnsFullCollection ==
    tm.pc = "returned" =>
        /\ tm.complete
        /\ AllChainsComplete
        /\ tm.result = ChainsRecords(tm.served)
        /\ tm.calls > 1 /\ tm.callreqs = 0 => tm.result = tm.tweets

\* C7: a request or a decoding that fails while a topic is collected ends
\* get_tweets with the exception, so that main stores nothing for the topic;
\* what get_tweets returns, and main stores, is the whole collection.
C7_FailureSurfaced ==
    /\ tm.exc # "none" => (tm.pc = "raised" /\ fs[TopicFile] = tm.pre)
    /\ tm.pc \in {"returned", "stored"} =>
          /\ tm.exc = "none"
          /\ AllChainsComplete
          /\ tm.result = ChainsRecords(tm.served)
    /\ tm.pc = "stored" =>
          FileMap(fs[TopicFile]) = Override(FileMap(tm.pre), ChainsRecords(tm.served))

\* the second query of a topic failed on its second page, after records of
\* the first query and of the first page were collected
C7_Witness ==
    /\ tm.pc = "raised"
    /\ tm.exc = "TwitterError"
    /\ tm.tweets # <<>>
    /\ Len(tm.served) = 2 /\ Len(tm.served[2]) = 1
    /\ tm.served[2][1].statuses # <<>>
    /\ fs[TopicFile] = tm.pre

-----------------------------------------------------------------------------
(* tad_common.load_topics *)

Line_sports == <<"s", "p", "o", "r", "t", "s", " ", "=", " ", "'", "n", "b", "a", "'", ",", " ", "'", "n", "f", "l", "'", "\n">>
Line_comment == <<"#", " ", "c", "o", "m", "m", "e", "n", "t", "\n">>
Line_blank == <<"\n">>
Line_music == <<"m", "u", "s", "i", "c", "=", "r", "o", "c", "k">>
Line_badline == <<"b", "a", "d", "l", "i", "n", "e", "\n">>
Line_two_equals == <<"a", "=", "b", "=", "c", "\n">>
Line_indented_comment == <<" ", "#", "x", "=", "y", "\n">>
Line_spaced == <<" ", "t", " ", "=", " ", "q", " ", ",", "r", " ", "\n">>

ConfigLines ==
    {Line_sports, Line_comment, Line_blank, Line_music, Line_badline,
     Line_two_equals, Line_indented_comment, Line_spaced}

ExampleConfig == <<Line_sports, Line_comment, Line_blank, Line_music>>

ConfigFiles == SeqsUpTo(ConfigLines, MaxLines) \cup {ExampleConfig}

StripAll(parts) == [i \in 1..Len(parts) |-> Strip(parts[i])]

\* a loop body that takes a line with several '=' as a topic
LoadTopicsLineFirstEquals(line, topic_queries) ==
    IF Len(Strip(line)) = 0 \/ Strip(line)[1] = "#" THEN topic_queries
    ELSE LET assignment == Split(line, "=")
         IN  IF Len(assignment) >= 2
             THEN Append(topic_queries,
                         <<Strip(assignment[1]),
                           StripAll(Split(assignment[2], ","))>>)
             ELSE topic_queries

\* the body of the loop over configfile.readlines()
LoadTopicsLine(line, topic_queries) ==
    IF Len(Strip(line)) = 0 \/ Strip(line)[1] = "#" THEN topic_queries
    ELSE LET assignment == Split(line, "=")
         IN  IF Len(assignment) = 2
             THEN Append(topic_queries,
                         <<Strip(assignment[1]),
                           StripAll(Split(assignment[2], ","))>>)
             ELSE topic_queries

LdInit ==
    \E lines \in ConfigFiles :
        ld = [pc |-> "loop", lines |-> lines, i |-> 0,
              topic_queries |-> <<>>, result |-> <<>>]

LdLine ==
    /\ ld.pc = "loop"
    /\ ld.i < Len(ld.lines)
    /\ ld' = [ld EXCEPT !.i = @ + 1,
                        !.topic_queries = LoadTopicsLine(ld.lines[ld.i + 1], @)]
    /\ UNCHANGED <<fs, st, sm, tm>>

\* return tuple(topic_queries)
LdReturn ==
    /\ ld.pc = "loop"
    /\ ld.i = Len(ld.lines)
    /\ ld' = [ld EXCEPT !.pc = "done", !.result = ld.topic_queries]
    /\ UNCHANGED <<fs, st, sm, tm>>

LoadInit == FsInit /\ LdInit /\ st = Idle /\ sm = Idle /\ tm = Idle

LoadNext == LdLine \/ LdReturn

SpecLoad == LoadInit /\ [][LoadNext]_vars

\* what a line is to contribute
CountOf(line, c) == Cardinality({i \in 1..Len(line) : line[i] = c})

FirstIndexOf(line, c) == CHOOSE i \in 1..Len(line) :
    line[i] = c /\ \A j \in 1..(i - 1) : line[j] # c

IsBlankOrComment(line) ==
    \/ \A i \in 1..Len(line) : line[i] \in Whitespace
    \/ \E i \in 1..Len(line) :
          /\ line[i] = "#"
          /\ \A j \in 1..(i - 1) : line[j] \in Whitespace

Contribution(line) ==
    IF IsBlankOrComment(line) \/ CountOf(line, "=") # 1 THEN <<>>
    ELSE LET e == FirstIndexOf(line, "=")
         IN  << <<Strip(SubSeq(line, 1, e - 1)),
                  StripAll(Split(SubSeq(line, e + 1, Len(line)), ","))>> >>

RECURSIVE Contributions(_)
Contributions(lines) ==
    IF lines = <<>> THEN <<>>
    ELSE Contribution(Head(lines)) \o Contributions(Tail(lines))

\* C8, the rule: blank lines and comments contribute nothing, a line with
\* exactly one '=' contributes the topic (trimmed left side, trimmed
\* comma-separated values of the right side), any other line nothing.
C8_Rule == ld.pc = "done" => ld.result = Contributions(ld.lines)

=============================================================================
